---- MODULE Spec2Model ----
(***************************************************************************)
(* The offline cache controller (service worker) of the portfolio site:    *)
(* install / activate lifecycle, request routing by path class, the four   *)
(* caching strategies, the fallback responses and the FIFO size limit.     *)
(*                                                                         *)
(* Every `await` of the source is a step of the model: a cache operation   *)
(* takes effect (or fails) at the step that resumes its caller.  A call    *)
(* whose promise the source does not await (cache.put, the background      *)
(* revalidation, the deletes gathered by Promise.all) is an operation in   *)
(* flight that lands at a step of its own.                                 *)
(*                                                                         *)
(* A pathname is kept split at its dots: "/scripts/main.js" is             *)
(* <<"/scripts/main", "js">> and "/" is <<"/">>.  No element holds a dot,   *)
(* so the text after the last dot is the last element.                     *)
(***************************************************************************)
EXTENDS Integers, Sequences, FiniteSets, TLC

\* ------------------------------------------------------------ constants

STATIC_CACHE == "portfolio-static-v1.1.0"
DYNAMIC_CACHE == "portfolio-dynamic-v1.1.0"
IMAGE_CACHE == "portfolio-images-v1.1.0"

\* A partition left behind by an earlier version of the worker.
STALE_CACHE == "portfolio-v1.0.0-dynamic"

MAX_IMAGE_CACHE_SIZE == 50
MAX_DYNAMIC_CACHE_SIZE == 30

STATIC_ASSETS ==
  << <<"/">>,
     <<"/index", "html">>,
     <<"/project-detail", "html">>,
     <<"/styles/main", "css">>,
     <<"/scripts/main", "js">>,
     <<"/scripts/utils/imageOptimization", "js">>,
     <<"/scripts/utils/imageManifest", "js">>,
     <<"/scripts/components/lightbox", "js">>,
     <<"/scripts/components/pageTransitions", "js">>,
     <<"/manifest", "json">> >>

CRITICAL_IMAGES ==
  << <<"/assets/images/project-1-medium", "webp">>,
     <<"/assets/images/project-1-medium", "jpg">>,
     <<"/assets/images/project-2-medium", "webp">>,
     <<"/assets/images/project-2-medium", "jpg">>,
     <<"/assets/images/project-3-medium", "webp">>,
     <<"/assets/images/project-3-medium", "jpg">> >>

PLACEHOLDER_KEY == <<"/assets/images/placeholder", "jpg">>
ROOT_KEY == <<"/">>

\* ------------------------------------------------------------ bounds

\* Fetch events delivered to the worker in one behaviour.
MaxFetches == 2
\* Push events with data delivered to the worker in one behaviour.
MaxPush == 1
\* A bounded partition starts empty or within MaxSlack entries of its limit.
MaxSlack == 1

\* ------------------------------------------------------------ helpers

None == [none |-> TRUE]

Last(s) == s[Len(s)]

Range(s) == {s[i] : i \in 1..Len(s)}

\* ------------------------------------------------------------ classification

isStaticAsset(pathname) ==
  /\ Len(pathname) >= 2
  /\ Last(pathname) \in {"css", "js", "woff", "woff2", "ttf", "eot"}

isImage(pathname) ==
  /\ Len(pathname) >= 2
  /\ Last(pathname) \in {"jpg", "jpeg", "png", "webp", "svg", "gif"}

isHTMLPage(pathname) ==
  \/ pathname = <<"/">>
  \/ (Len(pathname) >= 2 /\ Last(pathname) = "html")
  \/ Len(pathname) = 1

\* ------------------------------------------------------------ responses

\* The ok response the server gives for url to the network request `by`: two
\* network requests never get the same content.
NetOk(url, by) ==
  [status |-> 200, statusText |-> "OK", ctype |-> "server",
   body |-> <<"net", url, by>>]

NetNotOk(url) ==
  [status |-> 404, statusText |-> "Not Found", ctype |-> "server",
   body |-> <<"net", url, <<"error", 0>>>>]

SvgPlaceholder ==
  [status |-> 200, statusText |-> "", ctype |-> "image/svg+xml",
   body |-> <<"Image unavailable">>]

OfflinePage ==
  [status |-> 200, statusText |-> "", ctype |-> "text/html",
   body |-> <<"You're Offline">>]

\* Mutant: the generic strategy answers a failure with an empty 200.
DynamicOfflineOk ==
  [status |-> 200, statusText |-> "", ctype |-> "text/plain",
   body |-> <<>>]

\* handleDynamic: new Response("Offline", { status: 503 }).
DynamicOffline ==
  [status |-> 503, statusText |-> "", ctype |-> "text/plain",
   body |-> <<"Offline">>]

FallbackOffline ==
  [status |-> 503, statusText |-> "Service Unavailable", ctype |-> "text/plain",
   body |-> <<"Offline">>]

\* The outcome of a handleFetch whose promise rejects.
Rejected == [rejected |-> TRUE]

\* ------------------------------------------------------------ cache partitions

\* A partition is the sequence of its entries in insertion order.
Entry(key, resp) == [key |-> key, resp |-> resp]

CacheKeys(c) == [i \in 1..Len(c) |-> c[i].key]

HasKey(c, key) == \E i \in 1..Len(c) : c[i].key = key

\* Mutant: a lookup that finds the key answers with the oldest entry.
CacheMatchOldest(c, key) ==
  IF HasKey(c, key) THEN c[1].resp ELSE None

\* cache.match(request): the response stored under the key, else undefined.
CacheMatch(c, key) ==
  IF HasKey(c, key)
    THEN c[CHOOSE i \in 1..Len(c) : c[i].key = key].resp
    ELSE None

KeepOthers(c, key) == SelectSeq(c, LAMBDA e : e.key # key)

\* Variant: cache.put adds an entry whatever the partition holds.
CachePutAppends(c, key, resp) == Append(c, Entry(key, resp))

\* cache.put: the entry of the same request is replaced, the new one goes last.
CachePut(c, key, resp) == Append(KeepOthers(c, key), Entry(key, resp))

\* Mutant: cache.delete empties the partition.
CacheDeleteAll(c, key) == <<>>

\* cache.delete(key).
CacheDelete(c, key) == KeepOthers(c, key)

RECURSIVE PutAll(_, _, _)
PutAll(c, keys, by) ==
  IF keys = <<>> THEN c
  ELSE PutAll(CachePut(c, keys[1], NetOk(keys[1], by)), Tail(keys), by)

\* ------------------------------------------------------------ requested URLs

Img(n) == <<"/img/" \o ToString(n), "png">>

Api(n) == <<"/api/item-" \o ToString(n), "json">>

\* The entries an earlier run of the same worker version left in a bounded
\* partition: n distinct keys, written one after another.
Prefill(keys) ==
  [i \in 1..Len(keys) |-> Entry(keys[i], NetOk(keys[i], <<"earlier", 0>>))]

ImgKeys(n) == [i \in 1..n |-> Img(i)]

ApiKeys(n) == [i \in 1..n |-> Api(i)]

\* How far below its limit a bounded partition is when the worker restarts.
Slacks == 0..MaxSlack

ABOUT_PAGE == <<"/about">>
MAIN_CSS == <<"/styles/main", "css">>

\* The URLs fetch event r can be for: a static asset of the manifest; the
\* oldest image an earlier run cached, an image nobody asked for before and
\* the placeholder image; a page, the oldest data URL an earlier run cached
\* and a data URL nobody asked for before.
FetchUrls(r) ==
  {MAIN_CSS,
   Img(1), Img(MAX_IMAGE_CACHE_SIZE + r), PLACEHOLDER_KEY,
   ABOUT_PAGE, Api(1), Api(MAX_DYNAMIC_CACHE_SIZE + r)}

Reqs == 1..MaxFetches

\* location.origin of the worker, and an origin that is not.
locationOrigin == "https://portfolio.example"
otherOrigin == "https://cdn.example"

Request(method, origin, url) == [method |-> method, origin |-> origin, url |-> url]

\* The requests fetch event r can carry: a GET or a POST, to the worker's
\* origin or to another one, for each URL of FetchUrls(r).
FetchRequests(r) ==
  {Request(m, o, u) : m \in {"GET", "POST"}, o \in {locationOrigin, otherOrigin},
                      u \in FetchUrls(r)}

\* ------------------------------------------------------------ state

VARIABLES
  caches,        \* cache storage: partition name -> entries, for the partitions that exist
  phase,         \* lifecycle of this worker instance
  oldWorker,     \* an earlier worker instance still controls the pages
  instStatic,    \* install: the bulk write into static
  instImages,    \* install: the bulk write into images
  installPromise,\* the promise the install listener gave to waitUntil
  skipWaitingCalled,
  actPromise,    \* the promise the activate listener gave to waitUntil
  claimed,       \* clients.claim() was called
  deletedCaches, \* partitions deleted by a fulfilled caches.delete(name)
  notifications, \* calls of showNotification
  req,           \* the fetch events handled: one record per handleFetch call
  pendingOps,    \* cache operations started and not yet settled
  imgLog,        \* keys written into images, in the order the writes were started
  overlapped,    \* a fetch event arrived before the work of an earlier one had settled
  \* the page: PWAManager and the contact form (polyfills.js)
  isOnline,           \* this.isOnline
  serviceWorker,      \* this.serviceWorker is set: the registration succeeded
  pendingSubmissions, \* localStorage["pendingSubmissions"], parsed
  syncTags,           \* sync registrations the browser holds
  posted,             \* bodies the sync handler has POSTed to /api/contact
  formMessage,        \* the message shown above the form
  now,                \* Date.now()
  queuePc,            \* where the running queueFormSubmission call is
  \* the page: the testimonial carousel (main.js)
  currentSlide,
  isTransitioning,
  autoPlayInterval,   \* an interval is set
  hovered,            \* the pointer is over the carousel
  focused,            \* focus is inside the carousel
  documentHidden,     \* document.hidden
  reducedMotion,      \* prefersReducedMotion.matches
  lastAdvance         \* what changed the slide last: "manual" or "auto"

workerVars ==
  <<caches, phase, oldWorker, instStatic, instImages, installPromise,
    skipWaitingCalled, actPromise, claimed, deletedCaches, notifications, req, pendingOps,
    imgLog,
    overlapped>>

formVars ==
  <<isOnline, serviceWorker, pendingSubmissions, syncTags, posted, formMessage,
    now, queuePc>>

carouselVars ==
  <<currentSlide, isTransitioning, autoPlayInterval, hovered, focused,
    documentHidden, reducedMotion, lastAdvance>>

pageVars == <<formVars, carouselVars>>

vars == <<workerVars, pageVars>>

lifecycleVars ==
  <<phase, oldWorker, instStatic, instImages, installPromise,
    skipWaitingCalled, actPromise, claimed, deletedCaches>>

\* The page as loaded (polyfills.js, lines 640-642): nothing queued, nothing
\* registered.
FormLoaded ==
  /\ isOnline = TRUE
  /\ serviceWorker = TRUE
  /\ pendingSubmissions = <<>>
  /\ syncTags = {}
  /\ posted = <<>>
  /\ formMessage = "none"
  /\ now = 0
  /\ queuePc = "idle"

\* The carousel after setupTestimonialsCarousel: showSlide(0) has set
\* isTransitioning and its 500 ms timer is pending; startAutoPlay has set the
\* interval (pauseAutoPlay for reduced motion ran before initCarousel, when
\* no interval was set yet).
CarouselLoaded ==
  /\ currentSlide = 0
  /\ isTransitioning = TRUE
  /\ autoPlayInterval = TRUE
  /\ hovered = FALSE
  /\ focused = FALSE
  /\ documentHidden = FALSE
  /\ reducedMotion = FALSE
  /\ lastAdvance = "none"

PageInit == FormLoaded /\ CarouselLoaded

IdleReq ==
  [pc |-> "idle", method |-> "", origin |-> "", responded |-> FALSE,
   url |-> <<>>, strategy |-> "none", ctx |-> "strategy",
   lookup |-> "none", cached |-> None, outcome |-> "none", net |-> None,
   result |-> None, fgNet |-> 0, bgNet |-> 0, bg |-> "none", puts |-> 0,
   limName |-> "", limMax |-> 0, keysToDelete |-> <<>>, putFailed |-> FALSE,
   after |-> {}, late |-> "none", snapshot |-> <<>>]

\* A new version of the worker is being installed: cache storage holds
\* nothing, or the partition of the version it replaces.
InitInstall ==
  /\ oldWorker \in BOOLEAN
  /\ caches = [n \in (IF oldWorker THEN {STALE_CACHE} ELSE {}) |->
                 <<Entry(ROOT_KEY, NetOk(ROOT_KEY, <<"earlier", 0>>))>>]
  /\ imgLog = <<>>
  /\ phase = "installing"
  /\ instStatic = "opening"
  /\ instImages = "opening"
  /\ installPromise = "pending"
  /\ skipWaitingCalled = FALSE
  /\ actPromise = "none"
  /\ claimed = FALSE
  /\ deletedCaches = {}
  /\ notifications = 0

\* The host starts the worker again for a fetch event, after it installed and
\* activated it in an earlier run: cache storage holds what that run left,
\* either nothing (no bulk write and no request succeeded) or the manifest and
\* bounded partitions at or just below their limits.
InitRestart ==
  /\ oldWorker = FALSE
  /\ \/ /\ caches = (STATIC_CACHE :> <<>>)
        /\ imgLog = <<>>
     \/ \E slack \in Slacks :
          /\ caches =
               (STATIC_CACHE :> PutAll(<<>>, STATIC_ASSETS, <<"earlier", 0>>))
               @@ (IMAGE_CACHE :> Prefill(ImgKeys(MAX_IMAGE_CACHE_SIZE - slack)))
               @@ (DYNAMIC_CACHE :> Prefill(ApiKeys(MAX_DYNAMIC_CACHE_SIZE - slack)))
          /\ imgLog = ImgKeys(MAX_IMAGE_CACHE_SIZE - slack)
  /\ phase = "activated"
  /\ instStatic = "earlier"
  /\ instImages = "earlier"
  /\ installPromise = "earlier"
  /\ skipWaitingCalled = FALSE
  /\ actPromise = "earlier"
  /\ claimed = FALSE
  /\ deletedCaches = {}
  /\ notifications = 0

Init ==
  /\ InitInstall \/ InitRestart
  /\ req = [r \in Reqs |-> IdleReq]
  /\ pendingOps = {}
  /\ overlapped = FALSE
  /\ PageInit

\* caches.open(name): the partition is created when it does not exist.
Opened(cs, name) ==
  IF name \in DOMAIN cs THEN cs ELSE cs @@ (name :> <<>>)

\* ------------------------------------------------------------ operations in flight

Op(kind, cache, key, resp, owner, by) ==
  [op |-> kind, cache |-> cache, key |-> key, resp |-> resp, owner |-> owner,
   by |-> by]

DeleteCacheOp(name) == Op("deleteCache", name, <<>>, None, 0, "activate")

\* ------------------------------------------------------------ install (lines 48-74)

\* caches.open(STATIC_CACHE) of the install listener.
InstallOpenStatic ==
  /\ instStatic = "opening"
  /\ \/ /\ instStatic' = "adding"
        /\ caches' = Opened(caches, STATIC_CACHE)
     \/ /\ instStatic' = "failed"
        /\ UNCHANGED caches
  /\ UNCHANGED <<phase, oldWorker, instImages, installPromise, skipWaitingCalled,
                 actPromise, claimed, deletedCaches, notifications, pageVars, req, pendingOps, imgLog, overlapped>>

\* Mutant: the bulk write into static reports success and writes nothing.
InstallAddStaticNothing ==
  /\ instStatic = "adding"
  /\ instStatic' = "ok"
  /\ UNCHANGED <<caches, phase, oldWorker, instImages, installPromise,
                 skipWaitingCalled, actPromise, claimed, deletedCaches, notifications, pageVars, req, pendingOps,
                 imgLog, overlapped>>

\* cache.addAll(STATIC_ASSETS): every path is fetched and, when all are ok,
\* written in one batch; otherwise nothing is written and the promise rejects.
InstallAddStatic ==
  /\ instStatic = "adding"
  /\ \/ /\ instStatic' = "ok"
        /\ caches' = [caches EXCEPT
                        ![STATIC_CACHE] = PutAll(@, STATIC_ASSETS, <<"install", 0>>)]
     \/ /\ instStatic' = "failed"
        /\ UNCHANGED caches
  /\ UNCHANGED <<phase, oldWorker, instImages, installPromise, skipWaitingCalled,
                 actPromise, claimed, deletedCaches, notifications, pageVars, req, pendingOps, imgLog, overlapped>>

\* caches.open(IMAGE_CACHE) of the install listener.
InstallOpenImages ==
  /\ instImages = "opening"
  /\ \/ /\ instImages' = "adding"
        /\ caches' = Opened(caches, IMAGE_CACHE)
     \/ /\ instImages' = "failed"
        /\ UNCHANGED caches
  /\ UNCHANGED <<phase, oldWorker, instStatic, installPromise, skipWaitingCalled,
                 actPromise, claimed, deletedCaches, notifications, pageVars, req, pendingOps, imgLog, overlapped>>

\* cache.addAll(CRITICAL_IMAGES.filter((url) => url)): no entry of the list is
\* empty, so the filter keeps all six.
InstallAddImages ==
  /\ instImages = "adding"
  /\ \/ /\ instImages' = "ok"
        /\ caches' = [caches EXCEPT
                        ![IMAGE_CACHE] = PutAll(@, CRITICAL_IMAGES, <<"install", 0>>)]
        /\ imgLog' = imgLog \o CRITICAL_IMAGES
     \/ /\ instImages' = "failed"
        /\ UNCHANGED <<caches, imgLog>>
  /\ UNCHANGED <<phase, oldWorker, instStatic, installPromise, skipWaitingCalled,
                 actPromise, claimed, deletedCaches, notifications, pageVars, req, pendingOps, overlapped>>

\* Mutant: skipWaiting() moved after the catch, so that it runs on failure too.
SkipWaitingAlways(st, im) == TRUE

\* The skipWaiting() decision of the install listener: .then() runs when
\* Promise.all fulfilled, .catch() when it rejected.
SkipWaitingAfter(st, im) == st = "ok" /\ im = "ok"

\* Mutant: no .catch() on the chain, so that a failed bulk write rejects the
\* promise given to waitUntil and the host discards the worker.
InstallSettleUncaught ==
  /\ phase = "installing"
  /\ \/ instStatic = "ok" /\ instImages = "ok"
     \/ instStatic = "failed"
     \/ instImages = "failed"
  /\ skipWaitingCalled' = SkipWaitingAfter(instStatic, instImages)
  /\ installPromise' = IF skipWaitingCalled' THEN "resolved" ELSE "rejected"
  /\ phase' = IF skipWaitingCalled' THEN "installed" ELSE "redundant"
  /\ UNCHANGED <<caches, oldWorker, instStatic, instImages, actPromise, claimed,
                 deletedCaches, notifications, pageVars, req, pendingOps, imgLog,
                 overlapped>>

\* Promise.all settles: fulfilled when both bulk writes are, rejected as soon
\* as one is.  .then() calls skipWaiting(), .catch() logs; either way the
\* promise given to waitUntil is fulfilled and the worker is installed.
InstallSettle ==
  /\ phase = "installing"
  /\ \/ instStatic = "ok" /\ instImages = "ok"
     \/ instStatic = "failed"
     \/ instImages = "failed"
  /\ skipWaitingCalled' = SkipWaitingAfter(instStatic, instImages)
  /\ installPromise' = "resolved"
  /\ phase' = "installed"
  /\ UNCHANGED <<caches, oldWorker, instStatic, instImages, actPromise, claimed,
                 deletedCaches, notifications, pageVars,
                 req, pendingOps, imgLog, overlapped>>

\* The pages of the earlier worker instance are closed.
OldWorkerGone ==
  /\ oldWorker
  /\ phase \in {"installing", "installed"}
  /\ oldWorker' = FALSE
  /\ UNCHANGED <<caches, phase, instStatic, instImages, installPromise,
                 skipWaitingCalled, actPromise, claimed, deletedCaches, notifications, pageVars, req, pendingOps,
                 imgLog, overlapped>>

\* ------------------------------------------------------------ activate (lines 77-104)

\* The host activates an installed worker once no earlier instance is in
\* control, or at once when skipWaiting() was called; the activate listener
\* calls caches.keys().
ActivateStart ==
  /\ phase = "installed"
  /\ skipWaitingCalled \/ ~oldWorker
  /\ phase' = "activating"
  /\ oldWorker' = FALSE
  /\ actPromise' = "keys"
  /\ UNCHANGED <<caches, instStatic, instImages, installPromise,
                 skipWaitingCalled, claimed, deletedCaches, notifications, pageVars, req, pendingOps, imgLog,
                 overlapped>>

\* Mutant: the activate listener deletes every partition it lists.
StaleNamesAll(cacheNames) == cacheNames

\* The partitions the activate listener deletes, among the names listed.
StaleNames(cacheNames) ==
  {n \in cacheNames : n # STATIC_CACHE /\ n # DYNAMIC_CACHE /\ n # IMAGE_CACHE}

\* caches.keys() resolves: a delete is started for every stale partition.
ActivateKeys ==
  /\ actPromise = "keys"
  /\ \/ /\ pendingOps' = pendingOps \cup
                           {DeleteCacheOp(n) : n \in StaleNames(DOMAIN caches)}
        /\ actPromise' = "deleting"
        /\ UNCHANGED phase
     \/ /\ actPromise' = "rejected"
        /\ phase' = "activated"
        /\ UNCHANGED pendingOps
  /\ UNCHANGED <<caches, oldWorker, instStatic, instImages, installPromise,
                 skipWaitingCalled, claimed, deletedCaches, notifications, pageVars, req, imgLog, overlapped>>

\* caches.delete(cacheName) settles.
DeleteCacheLands ==
  \E o \in pendingOps :
    /\ o.op = "deleteCache"
    /\ pendingOps' = pendingOps \ {o}
    /\ \/ /\ caches' = [n \in DOMAIN caches \ {o.cache} |-> caches[n]]
          /\ deletedCaches' = deletedCaches \cup {o.cache}
          /\ UNCHANGED <<phase, actPromise>>
       \/ /\ actPromise' = "rejected"
          /\ phase' = "activated"
          /\ UNCHANGED <<caches, deletedCaches>>
    /\ UNCHANGED <<oldWorker, instStatic, instImages, installPromise,
                   skipWaitingCalled, claimed, notifications, pageVars, req, imgLog,
                   overlapped>>

\* Variant: clients.claim() as soon as the deletes are started.
ActivateClaimEarly ==
  /\ actPromise = "deleting"
  /\ claimed' = TRUE
  /\ actPromise' = "resolved"
  /\ phase' = "activated"
  /\ UNCHANGED <<caches, oldWorker, instStatic, instImages, installPromise,
                 skipWaitingCalled, deletedCaches, notifications, pageVars, req, pendingOps, imgLog,
                 overlapped>>

\* Every delete has settled: clients.claim().
ActivateClaim ==
  /\ actPromise = "deleting"
  /\ ~ \E o \in pendingOps : o.op = "deleteCache"
  /\ claimed' = TRUE
  /\ actPromise' = "resolved"
  /\ phase' = "activated"
  /\ UNCHANGED <<caches, oldWorker, instStatic, instImages, installPromise,
                 skipWaitingCalled, deletedCaches, notifications, pageVars, req, pendingOps, imgLog,
                 overlapped>>

\* ------------------------------------------------------------ fetch: routing (lines 107-142)

fetchVarsFrame == UNCHANGED <<lifecycleVars, notifications, pageVars>>

Active(rec) == rec.pc \notin {"idle", "done", "passed"}

\* Nothing a fetch handler started is still going on.
FetchIdle ==
  /\ \A r \in Reqs : ~Active(req[r]) /\ req[r].bg # "fetching"
  /\ ~ \E o \in pendingOps : o.op \in {"put", "delete"}

\* Mutant: only the extension is looked at.
ClassifyByExtension(pathname) ==
  IF isStaticAsset(pathname) THEN "static"
  ELSE IF isImage(pathname) THEN "image"
  ELSE IF Len(pathname) >= 2 /\ Last(pathname) = "html" THEN "html"
  ELSE "dynamic"

\* The strategy handleFetch dispatches a pathname to.
Classify(pathname) ==
  IF isStaticAsset(pathname) THEN "static"
  ELSE IF isImage(pathname) THEN "image"
  ELSE IF isHTMLPage(pathname) THEN "html"
  ELSE "dynamic"

Resolve(rec, resp) == [rec EXCEPT !.pc = "done", !.result = resp]

\* handleOfflineFallback: the request is classified again by its path.
handleOfflineFallback(rec) ==
  IF isImage(rec.url)
    THEN [rec EXCEPT !.ctx = "fallback", !.pc = "ph_open"]
  ELSE IF isHTMLPage(rec.url)
    THEN [rec EXCEPT !.ctx = "fallback", !.pc = "off_open"]
  ELSE Resolve([rec EXCEPT !.ctx = "fallback"], FallbackOffline)

\* Variant: handleFetch has no try of its own, and what the strategy does not
\* catch rejects its promise.
ThrowUncaught(rec) ==
  IF rec.strategy = "image"
     /\ rec.pc \in {"image_fetch", "limit_open", "limit_keys", "limit_delete"}
    THEN [rec EXCEPT !.pc = "ph_open"]
  ELSE IF rec.strategy = "html" /\ rec.pc = "html_fetch"
    THEN [rec EXCEPT !.pc = "html_match"]
  ELSE IF rec.strategy = "dynamic"
          /\ rec.pc \in {"dyn_fetch", "limit_open", "limit_keys", "limit_delete"}
    THEN [rec EXCEPT !.pc = "dyn_match"]
  ELSE Resolve(rec, Rejected)

\* Where an exception raised at rec.pc is caught: by the try of the strategy
\* the step is in, else by the try of handleFetch, else (already inside
\* handleOfflineFallback) by nobody, and the promise of handleFetch rejects.
Throw(rec) ==
  IF rec.ctx = "fallback"
    THEN Resolve(rec, Rejected)
  ELSE IF rec.strategy = "image"
          /\ rec.pc \in {"image_fetch", "limit_open", "limit_keys", "limit_delete"}
    THEN [rec EXCEPT !.pc = "ph_open"]
  ELSE IF rec.strategy = "html" /\ rec.pc = "html_fetch"
    THEN [rec EXCEPT !.pc = "html_match"]
  ELSE IF rec.strategy = "dynamic"
          /\ rec.pc \in {"dyn_fetch", "limit_open", "limit_keys", "limit_delete"}
    THEN [rec EXCEPT !.pc = "dyn_match"]
  ELSE handleOfflineFallback(rec)

\* The partition the strategy of a class works on.
PartitionOf(class) ==
  CASE class = "static" -> STATIC_CACHE
    [] class = "image" -> IMAGE_CACHE
    [] OTHER -> DYNAMIC_CACHE

\* Fetch event r is delivered to the active worker.  Bounds: the events come
\* one after another in the order of Reqs, and a worker in its first run gets
\* one fetch event.
Delivered(r) ==
  /\ phase = "activated"
  /\ req[r].pc = "idle"
  /\ \A q \in Reqs : q < r => req[q].pc # "idle" /\ installPromise = "earlier"

\* Mutant: the method check of the fetch listener removed.
InterceptedAnyMethod(request) == request.origin = locationOrigin

\* The fetch listener goes on to respondWith: neither of its two early
\* returns is taken.
Intercepted(request) ==
  /\ ~(request.method # "GET")
  /\ ~(request.origin # locationOrigin)

\* respondWith(handleFetch(request)): handleFetch runs up to the first await
\* of the strategy, caches.open().  Bound: the requests handled in one
\* behaviour are for one partition (handlers of different partitions share
\* no entry).
StartFetch(r, request) ==
  /\ Delivered(r)
  /\ \A q \in Reqs : (q < r /\ req[q].responded) =>
        PartitionOf(req[q].strategy) = PartitionOf(Classify(request.url))
  /\ LET url == request.url IN
     req' = [req EXCEPT ![r] =
               [IdleReq EXCEPT !.url = url,
                               !.method = request.method,
                               !.origin = request.origin,
                               !.responded = TRUE,
                               !.after = {q \in Reqs : req[q].pc = "done"},
                               !.strategy = Classify(url),
                               !.pc = CASE Classify(url) = "static" -> "static_open"
                                        [] Classify(url) = "image" -> "image_open"
                                        [] Classify(url) = "html" -> "html_open"
                                        [] OTHER -> "dyn_open"]]
  /\ overlapped' = (overlapped \/ ~FetchIdle)
  /\ UNCHANGED <<caches, pendingOps, imgLog>>
  /\ fetchVarsFrame

\* The listener returns before respondWith: the host handles the request as
\* if there were no worker.
PassThrough(r, request) ==
  /\ Delivered(r)
  /\ req' = [req EXCEPT ![r] =
               [IdleReq EXCEPT !.url = request.url,
                               !.method = request.method,
                               !.origin = request.origin,
                               !.pc = "passed"]]
  /\ UNCHANGED <<caches, pendingOps, imgLog, overlapped>>
  /\ fetchVarsFrame

\* The fetch listener.
FetchListener(r, request) ==
  IF Intercepted(request) THEN StartFetch(r, request) ELSE PassThrough(r, request)

\* The cache operation a handler is waiting for.
CacheOpPcs ==
  {"static_open", "static_match", "image_open", "image_match", "html_open",
   "html_match", "dyn_open", "dyn_match", "limit_open", "limit_keys",
   "ph_open", "ph_match", "off_open", "off_match"}

\* A caches.open / cache.match / cache.keys awaited by the handler rejects.
CacheOpFails(r) ==
  /\ req[r].pc \in CacheOpPcs
  /\ req' = [req EXCEPT ![r] = Throw(req[r])]
  /\ UNCHANGED <<caches, pendingOps, imgLog, overlapped>>
  /\ fetchVarsFrame

\* A caches.open awaited at pc `at` resolves.
OpenStep(r, at, name, next) ==
  /\ req[r].pc = at
  /\ caches' = Opened(caches, name)
  /\ req' = [req EXCEPT ![r].pc = next]
  /\ UNCHANGED <<pendingOps, imgLog, overlapped>>
  /\ fetchVarsFrame

PutOp(name, rec, r, by) == Op("put", name, rec.url, rec.net, r, by)

\* ------------------------------------------------------------ static assets (lines 145-162, 238-247)

StaticOpen(r) == OpenStep(r, "static_open", STATIC_CACHE, "static_match")

\* Mutant: the cached response is returned without revalidation.
StaticHitNoRevalidate(rec, c) ==
  Resolve([rec EXCEPT !.lookup = "hit", !.cached = c], c)

\* The cached branch of handleStaticAsset: updateCacheInBackground is called
\* (its fetch starts at once) and the cached response is returned.
StaticHit(rec, c) ==
  Resolve([rec EXCEPT !.lookup = "hit", !.cached = c, !.bg = "fetching",
                      !.bgNet = @ + 1], c)

\* cache.match resolves.  Hit: StaticHit.  Miss: fetch(request).
StaticMatch(r) ==
  /\ req[r].pc = "static_match"
  /\ LET c == CacheMatch(caches[STATIC_CACHE], req[r].url) IN
       req' = [req EXCEPT ![r] =
                 IF c # None
                   THEN StaticHit(@, c)
                   ELSE [@ EXCEPT !.lookup = "miss", !.fgNet = @ + 1,
                                  !.pc = "static_fetch"]]
  /\ UNCHANGED <<caches, pendingOps, imgLog, overlapped>>
  /\ fetchVarsFrame

\* await fetch(request) settles (no timeout on this path).
StaticFetch(r) ==
  /\ req[r].pc = "static_fetch"
  /\ \/ LET rec == [req[r] EXCEPT !.outcome = "ok",
                                    !.net = NetOk(req[r].url, <<"fg", r>>),
                                 !.puts = @ + 1] IN
          /\ pendingOps' = pendingOps \cup {PutOp(STATIC_CACHE, rec, r, "fg")}
            /\ req' = [req EXCEPT ![r] = Resolve(rec, rec.net)]
     \/ /\ req' = [req EXCEPT ![r] =
                     Resolve([@ EXCEPT !.outcome = "notok",
                                       !.net = NetNotOk(req[r].url)],
                             NetNotOk(req[r].url))]
        /\ UNCHANGED pendingOps
     \/ /\ req' = [req EXCEPT ![r] = Throw([@ EXCEPT !.outcome = "reject"])]
        /\ UNCHANGED pendingOps
  /\ UNCHANGED <<caches, imgLog, overlapped>>
  /\ fetchVarsFrame

\* Variant: a failed background fetch removes the entry it was to refresh.
BackgroundSettleEvicts(r) ==
  /\ req[r].bg = "fetching"
  /\ \/ /\ pendingOps' = pendingOps \cup
             {Op("put", STATIC_CACHE, req[r].url,
                 NetOk(req[r].url, <<"bg", r>>), r, "bg")}
        /\ req' = [req EXCEPT ![r].bg = "done"]
        /\ UNCHANGED caches
     \/ /\ req' = [req EXCEPT ![r].bg = "dropped"]
        /\ UNCHANGED <<pendingOps, caches>>
     \/ /\ req' = [req EXCEPT ![r].bg = "failed"]
        /\ caches' = [caches EXCEPT ![STATIC_CACHE] = CacheDelete(@, req[r].url)]
        /\ UNCHANGED pendingOps
  /\ UNCHANGED <<imgLog, overlapped>>
  /\ fetchVarsFrame

\* updateCacheInBackground: its fetch settles.  An ok response is put; one
\* that is not ok is dropped; a rejection is caught and ignored.
BackgroundSettle(r) ==
  /\ req[r].bg = "fetching"
  /\ \/ /\ pendingOps' = pendingOps \cup
             {Op("put", STATIC_CACHE, req[r].url,
                 NetOk(req[r].url, <<"bg", r>>), r, "bg")}
        /\ req' = [req EXCEPT ![r].bg = "done"]
        /\ UNCHANGED caches
     \/ /\ req' = [req EXCEPT ![r].bg = "dropped"]
        /\ UNCHANGED <<pendingOps, caches>>
     \/ /\ req' = [req EXCEPT ![r].bg = "failed"]
        /\ UNCHANGED <<pendingOps, caches>>
  /\ UNCHANGED <<imgLog, overlapped>>
  /\ fetchVarsFrame

\* ------------------------------------------------------------ images (lines 165-189)

ImageOpen(r) == OpenStep(r, "image_open", IMAGE_CACHE, "image_match")

\* Mutant: the cached branch of handleStaticAsset copied into handleImage.
ImageHitRevalidate(rec, c) ==
  Resolve([rec EXCEPT !.lookup = "hit", !.cached = c, !.bg = "fetching",
                      !.bgNet = @ + 1], c)

\* The cached branch of handleImage: the cached response is returned as is.
ImageHit(rec, c) == Resolve([rec EXCEPT !.lookup = "hit", !.cached = c], c)

\* cache.match resolves.  Miss: fetchWithTimeout(request, NETWORK_TIMEOUT).
ImageMatch(r) ==
  /\ req[r].pc = "image_match"
  /\ LET c == CacheMatch(caches[IMAGE_CACHE], req[r].url) IN
       req' = [req EXCEPT ![r] =
                 IF c # None
                   THEN ImageHit(@, c)
                   ELSE [@ EXCEPT !.lookup = "miss", !.fgNet = @ + 1,
                                  !.pc = "image_fetch"]]
  /\ UNCHANGED <<caches, pendingOps, imgLog, overlapped>>
  /\ fetchVarsFrame

\* A handler calls limitCacheSize(cacheName, maxSize): caches.open is awaited.
CallLimit(rec, name, max) ==
  [rec EXCEPT !.pc = "limit_open", !.limName = name, !.limMax = max]

\* The race of fetchWithTimeout rejects: fetch rejected, or the timer fired
\* first.  The timer does not abort fetch: its promise is still pending, and
\* nothing is chained on it but the race that has settled.
raceRejects(rec, why) ==
  [rec EXCEPT !.outcome = why,
              !.late = IF why = "timeout" THEN "pending" ELSE @]

\* Variant: the late response is put into the partition of the strategy.
LateResponseStored(r) ==
  /\ req[r].late = "pending"
  /\ req' = [req EXCEPT ![r].late = "dropped"]
  /\ pendingOps' = pendingOps \cup
       {PutOp(PartitionOf(req[r].strategy),
              [req[r] EXCEPT !.net = NetOk(req[r].url, <<"fg", r>>),
                             !.puts = @ + 1], r, "fg")}
  /\ UNCHANGED <<caches, imgLog, overlapped>>
  /\ fetchVarsFrame

\* The fetch that lost the race to the timer settles at last: the race has
\* already rejected, so the response reaches no handler.
LateResponse(r) ==
  /\ req[r].late = "pending"
  /\ req' = [req EXCEPT ![r].late = "dropped"]
  /\ UNCHANGED <<caches, pendingOps, imgLog, overlapped>>
  /\ fetchVarsFrame

\* The race of fetchWithTimeout settles: an ok response (put, then
\* limitCacheSize), another response (returned as is), a rejection or the timer.
ImageFetch(r) ==
  /\ req[r].pc = "image_fetch"
  /\ \/ LET rec == [req[r] EXCEPT !.outcome = "ok",
                                    !.net = NetOk(req[r].url, <<"fg", r>>),
                                 !.puts = @ + 1] IN
          /\ pendingOps' = pendingOps \cup {PutOp(IMAGE_CACHE, rec, r, "fg")}
            /\ imgLog' = Append(imgLog, rec.url)
            /\ req' = [req EXCEPT ![r] =
                         CallLimit(rec, IMAGE_CACHE, MAX_IMAGE_CACHE_SIZE)]
     \/ /\ req' = [req EXCEPT ![r] =
                     Resolve([@ EXCEPT !.outcome = "notok",
                                       !.net = NetNotOk(req[r].url)],
                             NetNotOk(req[r].url))]
        /\ UNCHANGED <<pendingOps, imgLog>>
     \/ \E why \in {"reject", "timeout"} :
          /\ req' = [req EXCEPT ![r] = Throw(raceRejects(@, why))]
          /\ UNCHANGED <<pendingOps, imgLog>>
  /\ UNCHANGED <<caches, overlapped>>
  /\ fetchVarsFrame

\* ------------------------------------------------------------ HTML pages (lines 192-214)

\* caches.open resolves; fetchWithTimeout is called.
HtmlOpen(r) ==
  /\ req[r].pc = "html_open"
  /\ caches' = Opened(caches, DYNAMIC_CACHE)
  /\ req' = [req EXCEPT ![r].pc = "html_fetch", ![r].fgNet = @ + 1]
  /\ UNCHANGED <<pendingOps, imgLog, overlapped>>
  /\ fetchVarsFrame

\* Variant: a response that is not ok is treated as a network failure.
HtmlFetchErrorFallsBack(r) ==
  /\ req[r].pc = "html_fetch"
  /\ \/ LET rec == [req[r] EXCEPT !.outcome = "ok",
                                    !.net = NetOk(req[r].url, <<"fg", r>>),
                                 !.puts = @ + 1] IN
          /\ pendingOps' = pendingOps \cup {PutOp(DYNAMIC_CACHE, rec, r, "fg")}
            /\ req' = [req EXCEPT ![r] = Resolve(rec, rec.net)]
     \/ /\ req' = [req EXCEPT ![r] =
                     Throw([@ EXCEPT !.outcome = "notok",
                                     !.net = NetNotOk(req[r].url)])]
        /\ UNCHANGED pendingOps
     \/ \E why \in {"reject", "timeout"} :
          /\ req' = [req EXCEPT ![r] = Throw(raceRejects(@, why))]
          /\ UNCHANGED pendingOps
  /\ UNCHANGED <<caches, imgLog, overlapped>>
  /\ fetchVarsFrame

\* The race settles.  An ok response is put and returned: limitCacheSize is
\* not called on this path.
HtmlFetch(r) ==
  /\ req[r].pc = "html_fetch"
  /\ \/ LET rec == [req[r] EXCEPT !.outcome = "ok",
                                    !.net = NetOk(req[r].url, <<"fg", r>>),
                                 !.puts = @ + 1] IN
          /\ pendingOps' = pendingOps \cup {PutOp(DYNAMIC_CACHE, rec, r, "fg")}
            /\ req' = [req EXCEPT ![r] = Resolve(rec, rec.net)]
     \/ /\ req' = [req EXCEPT ![r] =
                     Resolve([@ EXCEPT !.outcome = "notok",
                                       !.net = NetNotOk(req[r].url)],
                             NetNotOk(req[r].url))]
        /\ UNCHANGED pendingOps
     \/ \E why \in {"reject", "timeout"} :
          /\ req' = [req EXCEPT ![r] = Throw(raceRejects(@, why))]
          /\ UNCHANGED pendingOps
  /\ UNCHANGED <<caches, imgLog, overlapped>>
  /\ fetchVarsFrame

\* The catch branch: cache.match resolves; on a miss getOfflinePage is called.
HtmlMatch(r) ==
  /\ req[r].pc = "html_match"
  /\ LET c == CacheMatch(caches[DYNAMIC_CACHE], req[r].url) IN
       req' = [req EXCEPT ![r] =
                 IF c # None
                   THEN Resolve([@ EXCEPT !.lookup = "hit", !.cached = c], c)
                   ELSE [@ EXCEPT !.lookup = "miss", !.pc = "off_open"]]
  /\ UNCHANGED <<caches, pendingOps, imgLog, overlapped>>
  /\ fetchVarsFrame

\* ------------------------------------------------------------ other requests (lines 217-235)

DynOpen(r) ==
  /\ req[r].pc = "dyn_open"
  /\ caches' = Opened(caches, DYNAMIC_CACHE)
  /\ req' = [req EXCEPT ![r].pc = "dyn_fetch", ![r].fgNet = @ + 1]
  /\ UNCHANGED <<pendingOps, imgLog, overlapped>>
  /\ fetchVarsFrame

DynFetch(r) ==
  /\ req[r].pc = "dyn_fetch"
  /\ \/ LET rec == [req[r] EXCEPT !.outcome = "ok",
                                    !.net = NetOk(req[r].url, <<"fg", r>>),
                                 !.puts = @ + 1] IN
          /\ pendingOps' = pendingOps \cup {PutOp(DYNAMIC_CACHE, rec, r, "fg")}
            /\ req' = [req EXCEPT ![r] =
                         CallLimit(rec, DYNAMIC_CACHE, MAX_DYNAMIC_CACHE_SIZE)]
     \/ /\ req' = [req EXCEPT ![r] =
                     Resolve([@ EXCEPT !.outcome = "notok",
                                       !.net = NetNotOk(req[r].url)],
                             NetNotOk(req[r].url))]
        /\ UNCHANGED pendingOps
     \/ \E why \in {"reject", "timeout"} :
          /\ req' = [req EXCEPT ![r] = Throw(raceRejects(@, why))]
          /\ UNCHANGED pendingOps
  /\ UNCHANGED <<caches, imgLog, overlapped>>
  /\ fetchVarsFrame

\* The catch branch: cachedResponse || new Response("Offline", {status: 503}).
DynMatch(r) ==
  /\ req[r].pc = "dyn_match"
  /\ LET c == CacheMatch(caches[DYNAMIC_CACHE], req[r].url) IN
       req' = [req EXCEPT ![r] =
                 IF c # None
                   THEN Resolve([@ EXCEPT !.lookup = "hit", !.cached = c], c)
                   ELSE Resolve([@ EXCEPT !.lookup = "miss"], DynamicOffline)]
  /\ UNCHANGED <<caches, pendingOps, imgLog, overlapped>>
  /\ fetchVarsFrame

\* ------------------------------------------------------------ fallback responses (lines 260-339)

PhOpen(r) == OpenStep(r, "ph_open", IMAGE_CACHE, "ph_match")

\* getPlaceholderImage: the cached placeholder, else the inline SVG.
getPlaceholderImage(c) ==
  IF CacheMatch(c, PLACEHOLDER_KEY) # None
    THEN CacheMatch(c, PLACEHOLDER_KEY)
    ELSE SvgPlaceholder

PhMatch(r) ==
  /\ req[r].pc = "ph_match"
  /\ req' = [req EXCEPT ![r] =
               Resolve(@, getPlaceholderImage(caches[IMAGE_CACHE]))]
  /\ UNCHANGED <<caches, pendingOps, imgLog, overlapped>>
  /\ fetchVarsFrame

OffOpen(r) == OpenStep(r, "off_open", STATIC_CACHE, "off_match")

\* getOfflinePage: the entry of "/" in static, else the generated page.
getOfflinePage(c) ==
  IF CacheMatch(c, ROOT_KEY) # None
    THEN CacheMatch(c, ROOT_KEY)
    ELSE OfflinePage

OffMatch(r) ==
  /\ req[r].pc = "off_match"
  /\ req' = [req EXCEPT ![r] =
               Resolve(@, getOfflinePage(caches[STATIC_CACHE]))]
  /\ UNCHANGED <<caches, pendingOps, imgLog, overlapped>>
  /\ fetchVarsFrame

\* ------------------------------------------------------------ limitCacheSize (lines 342-354)

LimitOpen(r) ==
  /\ req[r].pc = "limit_open"
  /\ caches' = Opened(caches, req[r].limName)
  /\ req' = [req EXCEPT ![r].pc = "limit_keys"]
  /\ UNCHANGED <<pendingOps, imgLog, overlapped>>
  /\ fetchVarsFrame

\* Mutant: the sweep keeps the oldest maxSize keys and deletes the newest.
KeysToDeleteNewest(keys, maxSize) ==
  IF Len(keys) > maxSize THEN SubSeq(keys, maxSize + 1, Len(keys)) ELSE <<>>

\* keys.slice(0, keys.length - maxSize), for keys.length > maxSize.
KeysToDelete(keys, maxSize) ==
  IF Len(keys) > maxSize THEN SubSeq(keys, 1, Len(keys) - maxSize) ELSE <<>>

\* cache.keys() resolves.  Over the limit: a delete is started for each of the
\* oldest keys and Promise.all is awaited.  Otherwise limitCacheSize returns
\* and the handler returns the network response.
LimitKeys(r) ==
  /\ req[r].pc = "limit_keys"
  /\ LET del == KeysToDelete(CacheKeys(caches[req[r].limName]), req[r].limMax) IN
       IF del # <<>>
         THEN /\ req' = [req EXCEPT ![r].pc = "limit_delete",
                                    ![r].keysToDelete = del,
                                    ![r].snapshot =
                                      SubSeq(caches[req[r].limName], 1, Len(del))]
              /\ pendingOps' = pendingOps \cup
                   {Op("delete", req[r].limName, k, None, r, "fg") : k \in Range(del)}
         ELSE /\ req' = [req EXCEPT ![r] = Resolve(@, @.net)]
              /\ UNCHANGED pendingOps
  /\ UNCHANGED <<caches, imgLog, overlapped>>
  /\ fetchVarsFrame

\* Promise.all fulfilled: every delete of this sweep has settled.
LimitDone(r) ==
  /\ req[r].pc = "limit_delete"
  /\ ~ \E o \in pendingOps : o.op = "delete" /\ o.owner = r
  /\ req' = [req EXCEPT ![r] = Resolve(@, @.net)]
  /\ UNCHANGED <<caches, pendingOps, imgLog, overlapped>>
  /\ fetchVarsFrame

\* ------------------------------------------------------------ cache operations landing

\* A cache.put that nobody awaits takes effect.
PutLands ==
  \E o \in pendingOps :
    /\ o.op = "put"
    /\ pendingOps' = pendingOps \ {o}
    /\ caches' = [caches EXCEPT ![o.cache] = CachePut(@, o.key, o.resp)]
    /\ UNCHANGED <<req, imgLog, overlapped>>
    /\ fetchVarsFrame

\* A cache.put that nobody awaits rejects: nothing is written and nothing
\* handles the rejection.
PutFails ==
  \E o \in pendingOps :
    /\ o.op = "put"
    /\ pendingOps' = pendingOps \ {o}
    /\ req' = [req EXCEPT ![o.owner].putFailed = TRUE]
    /\ UNCHANGED <<caches, imgLog, overlapped>>
    /\ fetchVarsFrame

\* A cache.delete(key) of a sweep takes effect.
DeleteLands ==
  \E o \in pendingOps :
    /\ o.op = "delete"
    /\ pendingOps' = pendingOps \ {o}
    /\ caches' = [caches EXCEPT ![o.cache] = CacheDelete(@, o.key)]
    /\ UNCHANGED <<req, imgLog, overlapped>>
    /\ fetchVarsFrame

\* A cache.delete(key) of a sweep rejects: Promise.all rejects at once and
\* limitCacheSize throws into the try of its caller.
DeleteFails ==
  \E o \in pendingOps :
    /\ o.op = "delete"
    /\ pendingOps' = pendingOps \ {o}
    /\ req' = [req EXCEPT ![o.owner] =
                 IF @.pc = "limit_delete" THEN Throw(@) ELSE @]
    /\ UNCHANGED <<caches, imgLog, overlapped>>
    /\ fetchVarsFrame

\* ------------------------------------------------------------ sync and push (lines 372-432)

\* getPendingSubmissions: "in a real implementation, this would use
\* IndexedDB"; it resolves with the empty list.
getPendingSubmissions == <<>>

\* removePendingSubmission(id): an empty body; the store is as it was.
removePendingSubmission(store, id) == store

RECURSIVE RemoveAll(_, _)
RemoveAll(store, ids) ==
  IF ids = {} THEN store
  ELSE LET id == CHOOSE x \in ids : TRUE IN
       RemoveAll(removePendingSubmission(store, id), ids \ {id})

\* The sync listener.  For the tag "contact-form" syncContactForm runs: each
\* submission getPendingSubmissions() gives is POSTed to /api/contact and,
\* when the response is ok, removePendingSubmission is called for it; every
\* error is caught, so the promise given to waitUntil is fulfilled and the
\* browser drops the registration.  Any other tag is ignored.
SyncEvent(tag) ==
  /\ phase = "activated"
  /\ tag \in {"contact-form", "other"}
  /\ IF tag = "contact-form"
       THEN LET submissions == getPendingSubmissions IN
            \E oks \in SUBSET (1..Len(submissions)) :
              /\ posted' = posted \o [i \in 1..Len(submissions) |->
                                       submissions[i].data]
              /\ pendingSubmissions' =
                   RemoveAll(pendingSubmissions,
                             {submissions[i].id : i \in oks})
       ELSE UNCHANGED <<posted, pendingSubmissions>>
  /\ syncTags' = syncTags \ {tag}
  /\ UNCHANGED <<workerVars, carouselVars, isOnline, serviceWorker, formMessage,
                 now, queuePc>>

\* The push listener: without data it returns, with data it calls
\* showNotification.  Bound: push events come when the fetch events of the
\* behaviour have been handled (the listener shares no state with them).
PushEvent(hasData) ==
  /\ phase = "activated"
  /\ \A r \in Reqs : req[r].pc # "idle"
  /\ FetchIdle
  /\ notifications < MaxPush
  /\ notifications' = IF hasData THEN notifications + 1 ELSE notifications
  /\ UNCHANGED <<caches, req, pendingOps, imgLog, overlapped, lifecycleVars,
                 pageVars>>

\* ------------------------------------------------------------ the page: offline form queue (polyfills.js, lines 788-917)

\* Bounds: the submissions queued in one behaviour, the values of the clock
\* and the contents of the form.
MaxSubmissions == 2
MaxNow == 2
FormData == {"hello", "quote"}

\* window "online" / "offline": this.isOnline follows.
ConnectivityChange ==
  /\ isOnline' = ~isOnline
  /\ UNCHANGED <<workerVars, carouselVars, serviceWorker, pendingSubmissions,
                 syncTags, posted, formMessage, now, queuePc>>

\* Time passes.
Tick ==
  /\ now < MaxNow
  /\ now' = now + 1
  /\ UNCHANGED <<workerVars, carouselVars, isOnline, serviceWorker,
                 pendingSubmissions, syncTags, posted, formMessage, queuePc>>

\* storeFormSubmission: the submission is appended to the list kept in
\* localStorage under "pendingSubmissions".
storeFormSubmission(store, data) ==
  Append(store, [id |-> now, data |-> data])

\* The contact form is submitted while this.isOnline is false: the submit
\* listener prevents the default and calls queueFormSubmission, which returns
\* at once without a registration, else stores the submission and goes on to
\* sync.register.
SubmitOffline(data) ==
  /\ ~isOnline
  /\ queuePc = "idle"
  /\ Len(pendingSubmissions) < MaxSubmissions
  /\ IF serviceWorker
       THEN /\ pendingSubmissions' = storeFormSubmission(pendingSubmissions, data)
            /\ queuePc' = "register"
       ELSE UNCHANGED <<pendingSubmissions, queuePc>>
  /\ UNCHANGED <<workerVars, carouselVars, isOnline, serviceWorker, syncTags,
                 posted, formMessage, now>>

\* sync.register("contact-form") settles: fulfilled, the tag is registered
\* and the "Message queued" note is shown; rejected, the catch only logs.
RegisterSync ==
  /\ queuePc = "register"
  /\ queuePc' = "idle"
  /\ \/ /\ syncTags' = syncTags \cup {"contact-form"}
        /\ formMessage' = "queued"
     \/ UNCHANGED <<syncTags, formMessage>>
  /\ UNCHANGED <<workerVars, carouselVars, isOnline, serviceWorker,
                 pendingSubmissions, posted, now>>

\* The browser fires the sync event of a registered tag once there is
\* connectivity.
SyncFires ==
  /\ isOnline
  /\ \E tag \in syncTags : SyncEvent(tag)

\* ------------------------------------------------------------ the page: testimonial carousel (main.js, lines 383-657)

\* Bound: the number of slides in the page.
NumSlides == 3
Slides == 0..(NumSlides - 1)

\* goToSlide(index): when the slide is another one and no transition is
\* running, showSlide(index) and restartAutoPlay(), which clears the interval
\* and sets a new one.  by is who called: "manual" or "auto".
goToSlide(index, by) ==
  IF index # currentSlide /\ ~isTransitioning
    THEN /\ currentSlide' = index
         /\ isTransitioning' = TRUE
         /\ autoPlayInterval' = TRUE
         /\ lastAdvance' = by
    ELSE UNCHANGED <<currentSlide, isTransitioning, autoPlayInterval, lastAdvance>>

nextIndex == (currentSlide + 1) % NumSlides
prevIndex == (currentSlide - 1 + NumSlides) % NumSlides

\* Manual navigation: the previous and next buttons, the arrow keys and the
\* swipes (previousSlide / nextSlide), Home and End, and the indicators
\* (click, Space or Enter) all end in goToSlide.
ManualNavigation(index) ==
  /\ index \in {prevIndex, nextIndex, 0, NumSlides - 1} \cup Slides
  /\ goToSlide(index, "manual")
  /\ UNCHANGED <<workerVars, formVars, hovered, focused, documentHidden,
                 reducedMotion>>

\* The interval fires: nextSlide() unless the document is hidden or a
\* transition is running.
AutoPlayTick ==
  /\ autoPlayInterval
  /\ IF ~documentHidden /\ ~isTransitioning
       THEN goToSlide(nextIndex, "auto")
       ELSE UNCHANGED <<currentSlide, isTransitioning, autoPlayInterval,
                        lastAdvance>>
  /\ UNCHANGED <<workerVars, formVars, hovered, focused, documentHidden,
                 reducedMotion>>

\* The 500 ms timer of showSlide fires.
TransitionEnd ==
  /\ isTransitioning
  /\ isTransitioning' = FALSE
  /\ UNCHANGED <<workerVars, formVars, currentSlide, autoPlayInterval, hovered,
                 focused, documentHidden, reducedMotion, lastAdvance>>

\* mouseenter: pauseAutoPlay.
MouseEnter ==
  /\ ~hovered
  /\ hovered' = TRUE
  /\ autoPlayInterval' = FALSE
  /\ UNCHANGED <<workerVars, formVars, currentSlide, isTransitioning, focused,
                 documentHidden, reducedMotion, lastAdvance>>

\* mouseleave: startAutoPlay.
MouseLeave ==
  /\ hovered
  /\ hovered' = FALSE
  /\ autoPlayInterval' = TRUE
  /\ UNCHANGED <<workerVars, formVars, currentSlide, isTransitioning, focused,
                 documentHidden, reducedMotion, lastAdvance>>

\* focusin: pauseAutoPlay.
FocusIn ==
  /\ ~focused
  /\ focused' = TRUE
  /\ autoPlayInterval' = FALSE
  /\ UNCHANGED <<workerVars, formVars, currentSlide, isTransitioning, hovered,
                 documentHidden, reducedMotion, lastAdvance>>

\* focusout: startAutoPlay.
FocusOut ==
  /\ focused
  /\ focused' = FALSE
  /\ autoPlayInterval' = TRUE
  /\ UNCHANGED <<workerVars, formVars, currentSlide, isTransitioning, hovered,
                 documentHidden, reducedMotion, lastAdvance>>

\* visibilitychange: pauseAutoPlay when the document is hidden now, else
\* startAutoPlay.
VisibilityChange ==
  /\ documentHidden' = ~documentHidden
  /\ autoPlayInterval' = documentHidden
  /\ UNCHANGED <<workerVars, formVars, currentSlide, isTransitioning, hovered,
                 focused, reducedMotion, lastAdvance>>

\* change of prefers-reduced-motion: pauseAutoPlay when it matches now, else
\* startAutoPlay.
MotionPreferenceChange ==
  /\ reducedMotion' = ~reducedMotion
  /\ autoPlayInterval' = reducedMotion
  /\ UNCHANGED <<workerVars, formVars, currentSlide, isTransitioning, hovered,
                 focused, documentHidden, lastAdvance>>

\* ------------------------------------------------------------ specification

Next ==
  \/ InstallOpenStatic
  \/ InstallAddStatic
  \/ InstallOpenImages
  \/ InstallAddImages
  \/ InstallSettle
  \/ OldWorkerGone
  \/ ActivateStart
  \/ ActivateKeys
  \/ DeleteCacheLands
  \/ ActivateClaim
  \/ \E r \in Reqs : \E request \in FetchRequests(r) : FetchListener(r, request)
  \/ \E r \in Reqs : CacheOpFails(r)
  \/ \E r \in Reqs : StaticOpen(r)
  \/ \E r \in Reqs : StaticMatch(r)
  \/ \E r \in Reqs : StaticFetch(r)
  \/ \E r \in Reqs : BackgroundSettle(r)
  \/ \E r \in Reqs : ImageOpen(r)
  \/ \E r \in Reqs : ImageMatch(r)
  \/ \E r \in Reqs : ImageFetch(r)
  \/ \E r \in Reqs : HtmlOpen(r)
  \/ \E r \in Reqs : HtmlFetch(r)
  \/ \E r \in Reqs : HtmlMatch(r)
  \/ \E r \in Reqs : DynOpen(r)
  \/ \E r \in Reqs : DynFetch(r)
  \/ \E r \in Reqs : DynMatch(r)
  \/ \E r \in Reqs : PhOpen(r)
  \/ \E r \in Reqs : PhMatch(r)
  \/ \E r \in Reqs : OffOpen(r)
  \/ \E r \in Reqs : OffMatch(r)
  \/ \E r \in Reqs : LimitOpen(r)
  \/ \E r \in Reqs : LimitKeys(r)
  \/ \E r \in Reqs : LimitDone(r)
  \/ \E r \in Reqs : LateResponse(r)
  \/ PutLands
  \/ PutFails
  \/ DeleteLands
  \/ DeleteFails
  \/ \E tag \in {"contact-form", "other"} : SyncEvent(tag)
  \/ \E hasData \in BOOLEAN : PushEvent(hasData)

Spec == Init /\ [][Next]_vars

\* The host settles every caches.open and cache.addAll of the install
\* listener (each network request of addAll ends in a response or an error)
\* and runs the reactions of settled promises.
InstallFairness ==
  /\ WF_vars(InstallOpenStatic)
  /\ WF_vars(InstallAddStatic)
  /\ WF_vars(InstallOpenImages)
  /\ WF_vars(InstallAddImages)
  /\ WF_vars(InstallSettle)

FairSpec == Spec /\ InstallFairness

\* A step of the handler of request r in the image, HTML or generic strategy:
\* an awaited cache operation settles, or the race of fetchWithTimeout does.
TimedStep(r) ==
  \/ ImageOpen(r) \/ ImageMatch(r) \/ ImageFetch(r)
  \/ HtmlOpen(r) \/ HtmlFetch(r) \/ HtmlMatch(r)
  \/ DynOpen(r) \/ DynFetch(r) \/ DynMatch(r)
  \/ PhOpen(r) \/ PhMatch(r) \/ OffOpen(r) \/ OffMatch(r)
  \/ LimitOpen(r) \/ LimitKeys(r) \/ LimitDone(r)

\* The timer of fetchWithTimeout fires after NETWORK_TIMEOUT, so the race
\* settles whatever the network does; the host settles every cache operation
\* (it fulfils or rejects) and runs the continuation of the handler.  The
\* plain fetch of the static strategy has no timer and is given no fairness.
HandlerFairness ==
  /\ \A r \in Reqs : WF_vars(TimedStep(r))
  /\ WF_vars(DeleteLands)

\* The worker the browser started again, handling fetch events of the three
\* timed strategies.  Bound: these events are GETs to the worker's origin for
\* a cached image, a new image, a page and a new data URL.
TimedInit ==
  /\ InitRestart
  /\ req = [r \in Reqs |-> IdleReq]
  /\ pendingOps = {}
  /\ overlapped = FALSE
  /\ PageInit

TimedUrls(r) ==
  {Img(1), Img(MAX_IMAGE_CACHE_SIZE + r), ABOUT_PAGE,
   Api(MAX_DYNAMIC_CACHE_SIZE + r)}

TimedNext ==
  \/ \E r \in Reqs : \E u \in TimedUrls(r) :
       FetchListener(r, Request("GET", locationOrigin, u))
  \/ \E r \in Reqs : CacheOpFails(r)
  \/ \E r \in Reqs : TimedStep(r)
  \/ \E r \in Reqs : LateResponse(r)
  \/ PutLands
  \/ PutFails
  \/ DeleteLands
  \/ DeleteFails

TimedSpec == TimedInit /\ [][TimedNext]_vars /\ HandlerFairness

\* A worker that has been answering requests for a static asset.  Bound: the
\* events are GETs of one asset of the manifest; a request handled before
\* them missed and its cache.put may not have settled yet.
EarlierPut ==
  Op("put", STATIC_CACHE, MAIN_CSS, NetOk(MAIN_CSS, <<"earlier", 0>>), 0, "fg")

StaticInit ==
  /\ InitRestart
  /\ req = [r \in Reqs |-> IdleReq]
  /\ pendingOps \in {{}, {EarlierPut}}
  /\ overlapped = FALSE
  /\ PageInit

StaticNext ==
  \/ \E r \in Reqs : FetchListener(r, Request("GET", locationOrigin, MAIN_CSS))
  \/ \E r \in Reqs : CacheOpFails(r)
  \/ \E r \in Reqs : StaticOpen(r)
  \/ \E r \in Reqs : StaticMatch(r)
  \/ \E r \in Reqs : StaticFetch(r)
  \/ \E r \in Reqs : BackgroundSettle(r)
  \/ PutLands
  \/ PutFails

StaticSpec == StaticInit /\ [][StaticNext]_vars

\* The page with its offline form queue and the activated worker behind it.
FormInit ==
  /\ InitRestart
  /\ req = [r \in Reqs |-> IdleReq]
  /\ pendingOps = {}
  /\ overlapped = FALSE
  /\ isOnline \in BOOLEAN
  /\ serviceWorker \in BOOLEAN
  /\ pendingSubmissions = <<>>
  /\ syncTags = {}
  /\ posted = <<>>
  /\ formMessage = "none"
  /\ now = 0
  /\ queuePc = "idle"
  /\ CarouselLoaded

FormNext ==
  \/ ConnectivityChange
  \/ Tick
  \/ \E data \in FormData : SubmitOffline(data)
  \/ RegisterSync
  \/ SyncFires

FormSpec == FormInit /\ [][FormNext]_vars

\* The page with its carousel.
CarouselInit ==
  /\ InitRestart
  /\ req = [r \in Reqs |-> IdleReq]
  /\ pendingOps = {}
  /\ overlapped = FALSE
  /\ FormLoaded
  /\ CarouselLoaded

CarouselNext ==
  \/ \E index \in Slides : ManualNavigation(index)
  \/ AutoPlayTick
  \/ TransitionEnd
  \/ MouseEnter
  \/ MouseLeave
  \/ FocusIn
  \/ FocusOut
  \/ VisibilityChange
  \/ MotionPreferenceChange

CarouselSpec == CarouselInit /\ [][CarouselNext]_vars

\* ------------------------------------------------------------ routing alone

\* Pathnames of every shape the three tests tell apart: the root and a
\* dotless path; each of them followed by one extension (those of the two
\* regular expressions, "html", one the tests do not know, upper case, a dot
\* inside a directory name); a few with two dots.
RouteParts ==
  {"css", "js", "woff", "woff2", "ttf", "eot",
   "jpg", "jpeg", "png", "webp", "svg", "gif",
   "html", "json", "JS", "2/data"}

RoutePaths ==
  {<<h>> : h \in {"/", "/index"}}
  \cup {<<h, e>> : h \in {"/", "/index"}, e \in RouteParts}
  \cup {<<"/app", "min", "js">>, <<"/index", "html", "png">>,
        <<"/photo", "png", "html">>, <<"/main", "css", "map">>}

\* The fetch listener dispatching same-origin GETs for these pathnames; the
\* handlers are not run.
RouteNext ==
  \E r \in Reqs : \E p \in RoutePaths :
    FetchListener(r, Request("GET", locationOrigin, p))

RouteSpec == Init /\ [][RouteNext]_vars

\* ------------------------------------------------------------ properties

Size(name) == IF name \in DOMAIN caches THEN Len(caches[name]) ELSE 0

\* No listener has work in progress: install and activate have settled with
\* everything they started, and so has every fetch handler.
Quiescent ==
  /\ phase \in {"installed", "activated"}
  /\ instStatic \notin {"opening", "adding"}
  /\ instImages \notin {"opening", "adding"}
  /\ actPromise \notin {"keys", "deleting"}
  /\ pendingOps = {}
  /\ FetchIdle

\* C1: whenever no handler is in progress, images holds at most 50 entries
\* and dynamic at most 30.
C1_BoundedPartitions ==
  Quiescent =>
    /\ Size(IMAGE_CACHE) <= MAX_IMAGE_CACHE_SIZE
    /\ Size(DYNAMIC_CACHE) <= MAX_DYNAMIC_CACHE_SIZE

\* C2: the promise of handleFetch never rejects.
C2_NeverRejects == \A r \in Reqs : req[r].result # Rejected

NoDuplicates(seq) == \A i, j \in 1..Len(seq) : seq[i] = seq[j] => i = j

\* Every fetch event so far was an image request that missed, got an ok
\* response from the network, wrote it and returned it.
OnlyImageWrites ==
  \A r \in Reqs :
    req[r].pc # "idle" =>
      /\ req[r].strategy = "image"
      /\ req[r].outcome = "ok"
      /\ req[r].result = req[r].net
      /\ ~req[r].putFailed

\* C3: after N > 50 distinct ok responses were written one after another
\* through the image strategy, images holds exactly the 50 written last.
C3_FifoAfterSequentialWrites ==
  (/\ Quiescent
   /\ ~overlapped
   /\ OnlyImageWrites
   /\ NoDuplicates(imgLog)
   /\ Len(imgLog) > MAX_IMAGE_CACHE_SIZE)
  => /\ IMAGE_CACHE \in DOMAIN caches
     /\ CacheKeys(caches[IMAGE_CACHE]) =
          SubSeq(imgLog, Len(imgLog) - MAX_IMAGE_CACHE_SIZE + 1, Len(imgLog))

InstallFailed == instStatic = "failed" \/ instImages = "failed"

HtmlOfflineMiss(r) ==
  /\ req[r].strategy = "html"
  /\ req[r].outcome \in {"reject", "timeout"}
  /\ req[r].lookup = "miss"
  /\ req[r].pc = "done"

\* C5: such a request gets the generated offline page, whatever the other
\* partitions hold.
C5_OfflinePageSynthesized ==
  \A r \in Reqs : HtmlOfflineMiss(r) => req[r].result = OfflinePage

\* C6: when handleStaticAsset resolves after a miss and an ok network
\* response, the entry is in static.
C6_StoredBeforeReturn ==
  \A r \in Reqs :
    (/\ req[r].strategy = "static"
     /\ req[r].lookup = "miss"
     /\ req[r].outcome = "ok"
     /\ req[r].pc = "done")
    => /\ STATIC_CACHE \in DOMAIN caches
       /\ HasKey(caches[STATIC_CACHE], req[r].url)

\* C7: a static-asset request whose lookup hits returns the stored response
\* and starts exactly one background network request, at the hit and ever
\* after, whatever becomes of that request.
C7_StaticHitRevalidatesOnce ==
  [][\A r \in Reqs :
       (req'[r].strategy = "static" /\ req'[r].lookup = "hit") =>
         /\ req'[r].pc = "done"
         /\ req'[r].result = req'[r].cached
         /\ req'[r].bgNet = 1
         /\ req'[r].fgNet = 0
         /\ req[r].lookup # "hit" =>
              /\ req'[r].cached = CacheMatch(caches[STATIC_CACHE], req[r].url)
              /\ req'[r].bg = "fetching"]_vars

\* C7 witness: a static hit whose background request has settled.
C7_Witness ==
  \E r \in Reqs :
    /\ req[r].strategy = "static"
    /\ req[r].lookup = "hit"
    /\ req[r].bg = "done"

\* C8: after an image request missed, got an ok response in time and
\* completed, an identical request is answered from the cache without a
\* network request.
C8_CachedForNextRequest ==
  \A r1, r2 \in Reqs :
    (/\ req[r1].strategy = "image"
     /\ req[r1].lookup = "miss"
     /\ req[r1].outcome = "ok"
     /\ r1 \in req[r2].after
     /\ req[r2].url = req[r1].url
     /\ req[r2].lookup # "none")
    => /\ req[r2].lookup = "hit"
       /\ req[r2].fgNet = 0

\* C9: an image request that missed and whose network attempt rejected or
\* timed out gets the cached placeholder or the generated SVG, with status
\* 200, never an error and never a 503.
C9_PlaceholderOnFailure ==
  \A r \in Reqs :
    (/\ req[r].strategy = "image"
     /\ req[r].lookup = "miss"
     /\ req[r].outcome \in {"reject", "timeout"}
     /\ req[r].pc = "done")
    => /\ req[r].result # Rejected
       /\ \/ req[r].result = SvgPlaceholder
          \/ req[r].result = NetOk(PLACEHOLDER_KEY, req[r].result.body[3])

\* What request r has started besides returning a response.
StartedNothing(rec, r, ops) ==
  /\ rec.fgNet = 0
  /\ rec.bgNet = 0
  /\ rec.bg = "none"
  /\ rec.puts = 0
  /\ rec.keysToDelete = <<>>
  /\ ~ \E o \in ops : o.owner = r /\ o.op # "deleteCache"

\* C10: an image request whose lookup hits returns the stored response, and
\* neither the hit nor anything after it starts a network request, a cache
\* write or an eviction for it.
C10_ImageHitFrame ==
  [][\A r \in Reqs :
       (req'[r].strategy = "image" /\ req'[r].lookup = "hit") =>
         /\ req'[r].pc = "done"
         /\ req'[r].result = req'[r].cached
         /\ StartedNothing(req'[r], r, pendingOps')
         /\ req[r].lookup # "hit" =>
              /\ req'[r].cached = CacheMatch(caches[IMAGE_CACHE], req[r].url)
              /\ caches' = caches
              /\ pendingOps' = pendingOps]_vars

\* C10 witness: an image hit, answered while the partition was at its limit.
C10_Witness ==
  \E r \in Reqs :
    /\ req[r].strategy = "image"
    /\ req[r].lookup = "hit"
    /\ req[r].pc = "done"
    /\ Size(IMAGE_CACHE) >= MAX_IMAGE_CACHE_SIZE

\* C11: a generic request whose network attempt rejected or timed out is
\* answered with the entry its lookup in dynamic found, and otherwise (the
\* lookup found nothing, or could not be made) with status 503 and body
\* "Offline".
C11_DynamicOfflineFallback ==
  [][\A r \in Reqs :
       (/\ req'[r].strategy = "dynamic"
        /\ req'[r].outcome \in {"reject", "timeout"}
        /\ req'[r].pc = "done")
       => /\ req'[r].lookup = "hit" =>
               /\ req'[r].result = req'[r].cached
               /\ req'[r].cached # None
               /\ req[r].pc # "done" =>
                    req'[r].cached = CacheMatch(caches[DYNAMIC_CACHE], req[r].url)
          /\ req'[r].lookup # "hit" =>
               /\ req'[r].result.status = 503
               /\ req'[r].result.body = <<"Offline">>]_vars

\* C11 witness: of two generic requests that lost the network, one found its
\* entry in dynamic and the other found none.
C11_Witness ==
  \E r1, r2 \in Reqs :
    /\ req[r1].strategy = "dynamic" /\ req[r2].strategy = "dynamic"
    /\ req[r1].outcome \in {"reject", "timeout"}
    /\ req[r2].outcome \in {"reject", "timeout"}
    /\ req[r1].lookup = "hit" /\ req[r1].result = req[r1].cached
    /\ req[r2].lookup = "miss" /\ req[r2].result = DynamicOffline

\* C12: a fetch event whose method is not GET or whose origin is not the
\* worker's is not answered with respondWith, and neither its delivery nor
\* any later step reads, writes or deletes a cache entry or starts a network
\* request for it.
C12_NotIntercepted ==
  [][\A r \in Reqs :
       (/\ req'[r].pc # "idle"
        /\ req'[r].method # "GET" \/ req'[r].origin # locationOrigin)
       => /\ ~req'[r].responded
          /\ req'[r].pc = "passed"
          /\ req'[r].strategy = "none"
          /\ req'[r].lookup = "none"
          /\ StartedNothing(req'[r], r, pendingOps')
          /\ req[r].pc = "idle" => (caches' = caches /\ pendingOps' = pendingOps)]_vars

\* C12 witness: a POST to the worker's origin and a GET to another origin
\* have both been delivered.
C12_Witness ==
  \E r1, r2 \in Reqs :
    /\ req[r1].pc = "passed" /\ req[r2].pc = "passed"
    /\ req[r1].method = "POST" /\ req[r1].origin = locationOrigin
    /\ req[r2].method = "GET" /\ req[r2].origin = otherOrigin

\* The pc at which the handler of a strategy starts.
EntryPc(strategy) ==
  CASE strategy = "static" -> "static_open"
    [] strategy = "image" -> "image_open"
    [] strategy = "html" -> "html_open"
    [] strategy = "dynamic" -> "dyn_open"

\* C13: every intercepted request is given to the handler of exactly one of
\* the four classes, the first in the order static extension, image
\* extension, HTML ("/", ends in .html, or no dot), generic.
C13_FirstMatchingRule ==
  \A r \in Reqs :
    req[r].responded =>
      LET p == req[r].url
          ext == IF Len(p) >= 2 THEN Last(p) ELSE ""
          static == ext \in {"css", "js", "woff", "woff2", "ttf", "eot"}
          image == ext \in {"jpg", "jpeg", "png", "webp", "svg", "gif"}
          html == p = <<"/">> \/ ext = "html" \/ Len(p) = 1
      IN /\ req[r].strategy \in {"static", "image", "html", "dynamic"}
         /\ req[r].pc = EntryPc(req[r].strategy)
         /\ static => req[r].strategy = "static"
         /\ (~static /\ image) => req[r].strategy = "image"
         /\ (~static /\ ~image /\ html) => req[r].strategy = "html"
         /\ (~static /\ ~image /\ ~html) => req[r].strategy = "dynamic"

\* C13 witness: the root went to the HTML handler and a path whose only dot
\* is inside a directory name went to the generic one.
C13_Witness ==
  \E r1, r2 \in Reqs :
    /\ req[r1].url = <<"/">> /\ req[r1].pc = "html_open"
    /\ req[r2].url = <<"/index", "2/data">> /\ req[r2].pc = "dyn_open"

NoFetchYet == \A r \in Reqs : req[r].pc = "idle"

\* C14: once install has been handled with both bulk writes successful, and
\* until the first fetch event, static holds an entry for each of the ten
\* paths of STATIC_ASSETS and images one for each of the six of
\* CRITICAL_IMAGES.
C14_ManifestCached ==
  (/\ installPromise = "resolved"
   /\ instStatic = "ok"
   /\ instImages = "ok"
   /\ NoFetchYet)
  => /\ Cardinality(Range(STATIC_ASSETS)) = 10
     /\ Cardinality(Range(CRITICAL_IMAGES)) = 6
     /\ STATIC_CACHE \in DOMAIN caches
     /\ IMAGE_CACHE \in DOMAIN caches
     /\ \A k \in Range(STATIC_ASSETS) : HasKey(caches[STATIC_CACHE], k)
     /\ \A k \in Range(CRITICAL_IMAGES) : HasKey(caches[IMAGE_CACHE], k)

\* C14 witness: install succeeded, the worker has been activated and no
\* fetch event has come yet.
C14_Witness ==
  /\ installPromise = "resolved"
  /\ instStatic = "ok"
  /\ instImages = "ok"
  /\ NoFetchYet
  /\ phase = "activated"
  /\ Size(STATIC_CACHE) = 10
  /\ Size(IMAGE_CACHE) = 6

\* The three partition names of this version, as the claims spell them.
CurrentNames ==
  {"portfolio-static-v1.1.0", "portfolio-dynamic-v1.1.0", "portfolio-images-v1.1.0"}

\* The step is one of the activate handler: its promise moves on, or one of
\* its deletes settles.
ActivateStep ==
  \/ actPromise' # actPromise
  \/ \E o \in pendingOps \ pendingOps' : o.op = "deleteCache"

\* C15: a step of the activate handler leaves every existing partition of
\* the current version as it is; no step taken while the worker is
\* activating removes such a partition or an entry of one; and when the
\* handler's promise is fulfilled no partition of another name exists.
C15_ActivateCleansStale ==
  [][/\ ActivateStep =>
          \A n \in CurrentNames \cap DOMAIN caches :
            n \in DOMAIN caches' /\ caches'[n] = caches[n]
     /\ (phase = "activating" \/ phase' = "activating") =>
          \A n \in CurrentNames \cap DOMAIN caches :
            /\ n \in DOMAIN caches'
            /\ Range(caches[n]) \subseteq Range(caches'[n])
     /\ actPromise' = "resolved" => DOMAIN caches' \subseteq CurrentNames]_vars

\* C15 witness: the activate handler has completed after deleting
\* portfolio-v1.0.0-dynamic, with the manifest in static.
C15_Witness ==
  /\ actPromise = "resolved"
  /\ "portfolio-v1.0.0-dynamic" \in deletedCaches
  /\ Size(STATIC_CACHE) = 10
  /\ Size(IMAGE_CACHE) = 6

\* C16: a step that removes a partition is the landing of a caches.delete
\* started by the activate handler, and a step that removes an entry from a
\* partition is the landing of a delete started by a sweep called for that
\* partition.
C16_OnlyActivateDeletesPartitions ==
  [][/\ ~(DOMAIN caches \subseteq DOMAIN caches') =>
          \E o \in pendingOps \ pendingOps' :
            /\ o.op = "deleteCache"
            /\ o.by = "activate"
            /\ DOMAIN caches' = DOMAIN caches \ {o.cache}
     /\ \A n \in DOMAIN caches \cap DOMAIN caches' :
          caches'[n] # caches[n] =>
          \A k \in Range(CacheKeys(caches[n])) \ Range(CacheKeys(caches'[n])) :
            \E o \in pendingOps \ pendingOps' :
              /\ o.op = "delete"
              /\ o.cache = n
              /\ o.key = k
              /\ req[o.owner].limName = n
              /\ Range(CacheKeys(caches'[n])) = Range(CacheKeys(caches[n])) \ {k}]_vars

\* C16 witness: a sweep has evicted an entry, a push event has been handled
\* after it, and the three partitions exist.
C16_Witness ==
  /\ \E r \in Reqs :
       /\ req[r].pc = "done"
       /\ req[r].keysToDelete # <<>>
       /\ ~HasKey(caches[req[r].limName], req[r].keysToDelete[1])
  /\ notifications > 0
  /\ DOMAIN caches = CurrentNames

\* handleFetch caught an exception of the strategy and has settled.
FellBack(r) == req[r].ctx = "fallback" /\ req[r].pc = "done"

\* C17: when the strategy handler threw, handleFetch returns the placeholder
\* image for an image path, the offline page for an HTML-like path and
\* otherwise a 503 "Service Unavailable"; a static-asset miss whose network
\* request rejected gets that 503.
C17_FallbackByClass ==
  \A r \in Reqs :
    FellBack(r) =>
      IF isImage(req[r].url)
        THEN \/ req[r].result = SvgPlaceholder
             \/ /\ req[r].result # Rejected
                /\ req[r].result = NetOk(PLACEHOLDER_KEY, req[r].result.body[3])
      ELSE IF isHTMLPage(req[r].url)
        THEN req[r].result = OfflinePage
      ELSE /\ req[r].result.status = 503
           /\ req[r].result.statusText = "Service Unavailable"

\* C18: a step that serves a cache hit changes no partition, so the order of
\* the entries stays the order of their insertion; and a sweep that finds
\* its partition over the limit chooses the entries at the head of that
\* order, as many as exceed the limit, whichever of them were read.
C18_FifoNoPromotion ==
  [][\A r \in Reqs :
       /\ (req[r].lookup # "hit" /\ req'[r].lookup = "hit") => caches' = caches
       /\ (req[r].pc = "limit_keys" /\ req'[r].pc = "limit_delete") =>
            LET keys == CacheKeys(caches[req[r].limName])
                n == Len(keys) - req[r].limMax
            IN /\ n > 0
               /\ req'[r].keysToDelete = [i \in 1..n |-> keys[i]]
               /\ {o.key : o \in pendingOps' \ pendingOps} =
                    {keys[i] : i \in 1..n}
               /\ \A o \in pendingOps' \ pendingOps :
                    o.op = "delete" /\ o.cache = req[r].limName]_vars

\* C18 witness: an image was served from the cache, and the sweep of the
\* request after it evicted that very image.
C18_Witness ==
  \E r1, r2 \in Reqs :
    /\ req[r1].strategy = "image"
    /\ req[r1].lookup = "hit"
    /\ r1 \in req[r2].after
    /\ req[r2].pc = "done"
    /\ req[r1].url \in Range(req[r2].keysToDelete)
    /\ ~HasKey(caches[IMAGE_CACHE], req[r1].url)

\* The ok network response of request r1 has been written: its cache.put was
\* started and has landed.
Stored(r1) ==
  /\ req[r1].outcome = "ok"
  /\ req[r1].puts = 1
  /\ ~req[r1].putFailed
  /\ ~ \E o \in pendingOps : o.op = "put" /\ o.owner = r1

\* C19: when the first request for a URL got an ok network response that was
\* stored, and the second request for it, made after the first completed,
\* is answered from the partition and not by a network response of its own,
\* the second response is the response the first one stored.
C19_SecondHitReturnsStored ==
  [][\A r1, r2 \in Reqs :
       (/\ r1 # r2
        /\ Stored(r1)
        /\ r1 \in req[r2].after
        /\ req[r2].url = req[r1].url
        /\ \A q \in Reqs \ {r1, r2} : req[q].url # req[r1].url
        /\ req[r2].outcome # "ok"
        /\ req[r2].lookup # "hit"
        /\ req'[r2].lookup = "hit")
       => /\ req'[r2].cached = req[r1].net
          /\ req'[r2].result = req[r1].net
          /\ req[r1].net = NetOk(req[r1].url, <<"fg", r1>>)]_vars

\* C19 witness: a new image was fetched and stored by one request and served
\* from images to the next.
C19_Witness ==
  \E r1, r2 \in Reqs :
    /\ r1 \in req[r2].after
    /\ req[r1].strategy = "image"
    /\ req[r1].outcome = "ok"
    /\ req[r2].url = req[r1].url
    /\ req[r2].lookup = "hit"
    /\ req[r2].fgNet = 0
    /\ req[r2].result = NetOk(req[r1].url, <<"fg", r1>>)

\* The lifecycle phases in their order.
PhaseOrder ==
  {<<"installing", "installed">>, <<"installed", "activating">>,
   <<"activating", "activated">>}

\* C20: the promise the install listener gives to waitUntil is never
\* rejected and is fulfilled exactly when the worker leaves "installing",
\* which it always does, whether the bulk writes succeed or fail; and the
\* phase of the instance only ever moves one place along installing,
\* installed, activating, active.
C20_LifecycleOrder ==
  /\ [][phase' # phase => <<phase, phase'>> \in PhaseOrder]_vars
  /\ [](installPromise # "rejected")
  /\ [](phase = "installing" <=> installPromise = "pending")
  /\ (phase = "installing") ~> (phase = "installed" /\ installPromise = "resolved")

\* C20 witness: both bulk writes failed and the worker went through every
\* phase to active, in control of the pages.
C20_Witness ==
  /\ instStatic = "failed"
  /\ instImages = "failed"
  /\ installPromise = "resolved"
  /\ phase = "activated"
  /\ claimed

\* C21: in the HTML and generic strategies dynamic is looked up only after
\* the network attempt rejected or timed out, and a lookup that finds the key
\* gives the response returned; a request whose network attempt succeeded
\* never looks up the cache.
C21_CacheOnlyAfterNetworkFailure ==
  \A r \in Reqs :
    (req[r].strategy \in {"html", "dynamic"} /\ req[r].lookup # "none") =>
      /\ req[r].outcome \in {"reject", "timeout"}
      /\ (req[r].lookup = "hit" /\ req[r].pc = "done") =>
           req[r].result = req[r].cached

\* Where each timed strategy continues when its network attempt rejected.
AfterRejection(class) ==
  CASE class = "image" -> "ph_open"
    [] class = "html" -> "html_match"
    [] OTHER -> "dyn_match"

\* C22: when the timer of fetchWithTimeout fires first, the request continues
\* exactly where a network rejection continues, with no response from the
\* network and no write; and the step in which the late response arrives
\* changes no partition, queues no write and leaves the request's answer as
\* it is.
C22_LateResponseDiscarded ==
  [][\A r \in Reqs :
       /\ (req[r].outcome = "none" /\ req'[r].outcome \in {"reject", "timeout"}
             /\ req[r].strategy # "static") =>
            /\ req'[r].pc = AfterRejection(req[r].strategy)
            /\ req'[r].net = None
            /\ req'[r].puts = req[r].puts
            /\ pendingOps' = pendingOps
            /\ caches' = caches
       /\ (req[r].late = "pending" /\ req'[r].late = "dropped") =>
            /\ caches' = caches
            /\ pendingOps' = pendingOps
            /\ req'[r] = [req[r] EXCEPT !.late = "dropped"]
       /\ req'[r].outcome = "timeout" =>
            /\ req'[r].net = None
            /\ req'[r].result # NetOk(req'[r].url, <<"fg", r>>)
            /\ \A o \in pendingOps' : ~(o.op = "put" /\ o.owner = r)]_vars

\* An image request timed out, was answered with the generated placeholder,
\* and the late response has arrived since.
C22_Witness ==
  \E r \in Reqs :
    /\ req[r].strategy = "image"
    /\ req[r].outcome = "timeout"
    /\ req[r].late = "dropped"
    /\ req[r].pc = "done"
    /\ req[r].result = SvgPlaceholder

Timed(rec) == Active(rec) /\ rec.strategy \in {"image", "html", "dynamic"}

\* C23: the handler of every intercepted image, HTML-page or generic request
\* settles (a handler never goes back once settled, so this is: again and
\* again none of them is running), and it settles with a response unless a
\* cache operation of its fallback rejected: the promise of handleFetch is
\* rejected only from inside handleOfflineFallback and only for an image or
\* HTML-like path, where all it awaits is the caches.open and cache.match of
\* getPlaceholderImage or getOfflinePage.
C23_TimedRequestAnswered ==
  /\ []<>(\A r \in Reqs : ~Timed(req[r]))
  /\ [](\A r \in Reqs :
          req[r].result = Rejected =>
            /\ req[r].ctx = "fallback"
            /\ isImage(req[r].url) \/ isHTMLPage(req[r].url))

\* An image request whose race ended with the timer has been answered.
C23_Witness ==
  \E r \in Reqs :
    /\ req[r].strategy = "image"
    /\ req[r].outcome = "timeout"
    /\ req[r].late = "pending"
    /\ req[r].pc = "done"
    /\ req[r].result # Rejected

\* The number of entries partition c holds for key.
Copies(c, key) == Len(SelectSeq(c, LAMBDA e : e.key = key))

\* The puts of the static strategy that settle in the step.
StaticPutsSettling ==
  {o \in pendingOps \ pendingOps' : o.op = "put" /\ o.cache = STATIC_CACHE}

\* What a step does to the static partition, from c to d.
StaticWrite(c, d) ==
  /\ \A o \in StaticPutsSettling :
       caches' # caches =>
         /\ Copies(d, o.key) = 1
         /\ CacheMatch(d, o.key) = o.resp
  /\ \A k \in {MAIN_CSS} :
       /\ Copies(d, k) <= 1
       /\ HasKey(c, k) => HasKey(d, k)
       /\ (HasKey(c, k) /\ CacheMatch(d, k) # CacheMatch(c, k)) =>
            \/ instStatic' # instStatic
            \/ \E o \in StaticPutsSettling : o.key = k

\* C24: writes to the static partition are last-writer-wins per key.  When a
\* put of the miss path or of the background revalidation lands, the
\* partition holds exactly one entry for its key and that entry is the
\* response just written; between landings the entry of a key changes only
\* by an install write; a key once present is never duplicated and never
\* goes away.
C24_StaticLastWriterWins ==
  [][(STATIC_CACHE \in DOMAIN caches) =>
       StaticWrite(caches[STATIC_CACHE], caches'[STATIC_CACHE])]_vars

\* Two requests for the same static asset: one missed and wrote its response,
\* the other hit and its background revalidation wrote another; both writes
\* have landed and the one of the miss path landed last.
C24_Witness ==
  \E r1, r2 \in Reqs :
    /\ req[r1].strategy = "static" /\ req[r1].lookup = "miss"
    /\ req[r1].puts = 1 /\ ~req[r1].putFailed
    /\ req[r2].strategy = "static" /\ req[r2].lookup = "hit"
    /\ req[r2].url = req[r1].url
    /\ req[r2].bg = "done" /\ ~req[r2].putFailed
    /\ pendingOps = {}
    /\ req[r2].cached # NetOk(req[r1].url, <<"fg", r1>>)
    /\ CacheMatch(caches[STATIC_CACHE], req[r1].url)
         = NetOk(req[r1].url, <<"fg", r1>>)

\* C25: when the fetch of updateCacheInBackground rejects, the request that
\* started it has already been answered with the cached response, and the
\* step changes no partition, queues no write and leaves that answer as it
\* is: the promise of handleFetch stays fulfilled.
C25_BackgroundFailureSilent ==
  [][\A r \in Reqs :
       (req[r].bg = "fetching" /\ req'[r].bg = "failed") =>
         /\ req[r].strategy = "static" /\ req[r].lookup = "hit"
         /\ req[r].pc = "done"
         /\ req[r].result = req[r].cached
         /\ req[r].result \notin {None, Rejected}
         /\ req'[r] = [req[r] EXCEPT !.bg = "failed"]
         /\ caches' = caches
         /\ pendingOps' = pendingOps]_vars

\* A static hit whose background revalidation was rejected, with the entry of
\* its key still the response it returned.
C25_Witness ==
  \E r \in Reqs :
    /\ req[r].bg = "failed"
    /\ req[r].pc = "done"
    /\ CacheMatch(caches[STATIC_CACHE], req[r].url) = req[r].result

\* C26: clients.claim is called only in a step at which every delete the
\* activate listener started has settled and no stale partition is left; an
\* activation that is over has called it exactly when neither caches.keys nor
\* a caches.delete rejected, and it is over only in those two ways.
C26_ClaimAfterDeletes ==
  [][/\ (~claimed /\ claimed') =>
          /\ actPromise = "deleting"
          /\ ~ \E o \in pendingOps : o.op = "deleteCache"
          /\ StaleNames(DOMAIN caches) = {}
     /\ (phase' = "activated" /\ actPromise' # "earlier") =>
          /\ actPromise' \in {"resolved", "rejected"}
          /\ claimed' <=> actPromise' = "resolved"
     /\ (phase = "activating" /\ phase' = "activated" /\ ~claimed') =>
          actPromise' = "rejected"]_vars

\* The stale partition has been deleted and the pages have been claimed.
C26_Witness ==
  /\ claimed
  /\ STALE_CACHE \in deletedCaches
  /\ actPromise = "resolved"

\* The deletes of sweeps that land in the step.
DeletesLanding == {o \in pendingOps \ pendingOps' : o.op = "delete"}

\* C27: a delete of a sweep removes only an entry the sweep listed when it
\* took its snapshot of the keys, and a partition that has reached its bound
\* never holds fewer entries than the bound afterwards.
C27_SweepOnlySnapshot ==
  [][/\ \A o \in DeletesLanding :
          \A e \in Range(caches[o.cache]) \ Range(caches'[o.cache]) :
            e \in Range(req[o.owner].snapshot)
     /\ \A n \in {IMAGE_CACHE, DYNAMIC_CACHE} :
          (n \in DOMAIN caches /\ n \in DOMAIN caches') =>
            LET max == IF n = IMAGE_CACHE THEN MAX_IMAGE_CACHE_SIZE
                                          ELSE MAX_DYNAMIC_CACHE_SIZE IN
            Len(caches[n]) >= max => Len(caches'[n]) >= max]_vars

\* C28: in each of the four strategies a response that is not ok is the
\* response returned, in the very step it arrives; that step changes no
\* partition and queues no write; the request never writes, never calls
\* limitCacheSize, and never goes on to a cached entry, the placeholder or
\* the offline page; and no partition ever holds such a response.
C28_NotOkPassedThrough ==
  [][/\ \A r \in Reqs :
          req'[r].outcome = "notok" =>
            /\ req'[r].pc = "done"
            /\ req'[r].result = NetNotOk(req'[r].url)
            /\ req'[r].ctx = "strategy"
            /\ req'[r].puts = 0
            /\ req'[r].limName = ""
            /\ req'[r].lookup =
                 IF req'[r].strategy \in {"static", "image"} THEN "miss"
                                                             ELSE "none"
            /\ \A o \in pendingOps' : o.owner # r
            /\ req[r].outcome # "notok" =>
                 caches' = caches /\ pendingOps' = pendingOps
     /\ \A n \in DOMAIN caches' : \A i \in 1..Len(caches'[n]) :
          caches'[n][i].resp.status = 200]_vars

\* Two requests handled together have each passed on a response that was
\* not ok.
C28_Witness ==
  \E r1, r2 \in Reqs :
    /\ req[r1].outcome = "notok" /\ req[r2].outcome = "notok"
    /\ req[r1].strategy \in {"html", "static", "image"}
    /\ req[r2].strategy \in {"dynamic", "static", "image"}
    /\ r1 # r2
    /\ req[r1].pc = "done" /\ req[r2].pc = "done"

\* C29: when the sync event of the tag contact-form has been handled, every
\* submission that was queued has been POSTed by the sync handler, and a
\* submission leaves the pending store only when it has been POSTed.
C29_QueuedSubmissionPosted ==
  [][/\ ("contact-form" \in syncTags /\ "contact-form" \notin syncTags') =>
          \A i \in 1..Len(pendingSubmissions) :
            pendingSubmissions[i].data \in Range(posted')
     /\ \A s \in Range(pendingSubmissions) \ Range(pendingSubmissions') :
          s.data \in Range(posted')]_vars

\* C30: while the pointer is over the carousel or focus is inside it, no
\* interval is set and the slide changes only by manual navigation.
C30_PausedWhileHoveredOrFocused ==
  [][/\ (hovered' \/ focused') => ~autoPlayInterval'
     /\ ((hovered \/ focused) /\ currentSlide' # currentSlide) =>
          lastAdvance' = "manual"]_vars

====
